---- MODULE Spec2Model ----
(***************************************************************************)
(* Model of the bounded multi-round tool-orchestration loop of            *)
(* backend/ai_generator.py (AIGenerator) together with the dispatch of    *)
(* backend/search_tools.py (ToolManager.execute_tool).                    *)
(*                                                                         *)
(* One generate_response invocation is a synchronous call chain.  Its     *)
(* only suspension points are the blocking calls to the model backend     *)
(* (client.messages.create) and to the tool manager (execute_tool); each  *)
(* action below runs the code from one suspension point to the next.      *)
(* The backend's responses and the tools' outcomes are the environment:   *)
(* they are drawn from bounded sets.                                       *)
(***************************************************************************)
EXTENDS Naturals, Sequences, FiniteSets, TLC

VARIABLES
    pc,            \* position of the invocation: idle, direct_call, round_call, exec, final_call, done, failed
    tools,         \* the tools argument of generate_response
    tool_manager,  \* the tool_manager argument of generate_response
    messages,      \* the message history of the invocation (local list `messages`)
    round_num,     \* loop variable of _execute_tool_rounds
    tool_blocks,   \* tool_use blocks of the last parsed response
    idx,           \* number of blocks of tool_blocks already iterated by _execute_tool_calls
    results,       \* local list `results` of _execute_tool_calls
    all_success,   \* local flag `all_success` of _execute_tool_calls
    result,        \* the text returned by generate_response (meaningful when pc = "done")
    failure,       \* what propagated to the caller (meaningful when pc = "failed")
    trace,         \* observation log: every backend call and every tool execution, in order
    inv,           \* observation: the query of the invocation and how the one before it on this AIGenerator ended
    tm_tools,      \* ToolManager.tools: insertion-ordered dict, name -> tool object
    last_sources,  \* the last_sources attribute of every tool object that has one
    tm_last,       \* observation: the last ToolManager call and what it returned or raised
    tm_first,      \* observation: the registered names in the order of their first registration
    tm_since,      \* observation: what happened since the last reset_sources
    q_pc,          \* position of every caller's query against the shared ToolManager
    q_mode,        \* how the callers use the ToolManager (serialized or not, reset or not)
    q_chan,        \* observation: who stored citations last, and which, since the last reset
    vs_call,       \* observation: the last VectorStore.search call and its result
    st_pc,         \* how often the CourseSearchTool under test has been executed: fresh, used, done
    st_call,       \* observation: the last CourseSearchTool.execute call and what it returned
    ol_call        \* observation: the last CourseOutlineTool.execute call and what it returned

gen_vars == <<pc, tools, tool_manager, messages, round_num, tool_blocks, idx,
              results, all_success, result, failure, trace, inv>>
tm_vars == <<tm_tools, last_sources, tm_last, tm_first, tm_since>>
q_vars == <<q_pc, q_mode, q_chan>>
vs_vars == <<vs_call>>

st_vars == <<st_pc, st_call>>

ol_vars == <<ol_call>>

vars == <<gen_vars, tm_vars, q_vars, vs_vars, st_vars, ol_vars>>

(***************************************************************************)
(* Bounds of the environment.                                              *)
(***************************************************************************)
MaxBlocks == 2           \* longest response content the backend returns

Queries == {"q1", "q2"}
RegisteredTools == {"search_course_content"}
\* The tool names the backend invokes.
ToolNames == {"search_course_content"}

(***************************************************************************)
(* AIGenerator.__init__                                                    *)
(***************************************************************************)
max_tool_rounds_three == 2 + 1
max_tool_rounds == 2

(***************************************************************************)
(* Content items.                                                          *)
(***************************************************************************)
TextBlock(t) == [type |-> "text", text |-> t]
ToolUseBlock(id, name) == [type |-> "tool_use", id |-> id, name |-> name]

\* The shapes of a response: each item is a text item or the invocation of
\* a named tool.
Shapes == UNION {[1..n -> {"text"} \cup ToolNames] : n \in 0..MaxBlocks}

\* The i-th item of the call_no-th response of a query: the backend gives
\* every invocation its own id, and the texts are labelled the same way, so
\* that no two items of a query are equal by accident.
ResponseOf(shape, call_no) ==
    [i \in 1..Len(shape) |->
        IF shape[i] = "text"
        THEN TextBlock("t" \o ToString(10 * call_no + i))
        ELSE ToolUseBlock(10 * call_no + i, shape[i])]

Responses(call_no) == {ResponseOf(s, call_no) : s \in Shapes}

\* Outcome of client.messages.create: a response, or a raised failure.
BackendOutcomes(call_no) ==
    {[ok |-> TRUE, content |-> c] : c \in Responses(call_no)}
        \cup {[ok |-> FALSE, content |-> <<>>]}

\* Values of the tools argument: None, an empty list, a non-empty list.
ToolsArgs ==
    {[given |-> FALSE, defs |-> <<>>],
     [given |-> TRUE, defs |-> <<>>],
     [given |-> TRUE, defs |-> <<"search_course_content">>]}

\* Values of the tool_manager argument: None, or a ToolManager with the
\* search tool registered.
ManagerArgs ==
    {[given |-> FALSE, registry |-> {}],
     [given |-> TRUE, registry |-> RegisteredTools]}

\* A ToolManager in which the name the model invokes is not registered.
OtherTools == {"get_course_outline"}
SessionManagers == ManagerArgs \cup {[given |-> TRUE, registry |-> OtherTools]}

Truthy(t) == t.given /\ Len(t.defs) > 0

(***************************************************************************)
(* The observation log.                                                    *)
(***************************************************************************)
ApiEntry(params, o) ==
    [type |-> "api", has_tools |-> params.has_tools,
     has_tool_choice |-> params.has_tool_choice, messages |-> params.messages,
     ok |-> o.ok, content |-> o.content]

ExecEntry(block, o, r) ==
    [type |-> "exec", id |-> block.id, name |-> block.name,
     raised |-> o.raised, value |-> o.value, round |-> r]

ApiCalls(tr) == SelectSeq(tr, LAMBDA e : e.type = "api")
ToolExecs(tr) == SelectSeq(tr, LAMBDA e : e.type = "exec")
NumApiCalls(tr) == Len(ApiCalls(tr))

(***************************************************************************)
(* AIGenerator: pure helpers.                                              *)
(***************************************************************************)
\* _build_initial_messages: [{"role": "user", "content": query}]
_build_initial_messages_keeps_history(query) ==
    Append(messages, [role |-> "user", content |-> query])
_build_initial_messages(query) == <<[role |-> "user", content |-> query]>>

\* generate_response, no-tools path: api_params carries neither tools nor tool_choice.
direct_api_params(msgs) ==
    [messages |-> msgs, has_tools |-> FALSE, has_tool_choice |-> FALSE]

\* _call_claude_api: `if tools:` adds the tools and tool_choice = auto.
api_params_choice_always(msgs, t) ==
    [messages |-> msgs, has_tools |-> Truthy(t), has_tool_choice |-> TRUE]
api_params(msgs, t) ==
    [messages |-> msgs, has_tools |-> Truthy(t), has_tool_choice |-> Truthy(t)]

\* _call_claude_api: the loop over response.content; a later text item
\* overwrites response_text, every tool_use item is appended.
RECURSIVE extract_response(_, _, _)
extract_response(content, response_text, blocks) ==
    IF Len(content) = 0
    THEN [text |-> response_text, tool_blocks |-> blocks]
    ELSE LET b == Head(content) IN
         IF b.type = "text"
         THEN extract_response(Tail(content), b.text, blocks)
         ELSE IF b.type = "tool_use"
         THEN extract_response(Tail(content), response_text, Append(blocks, b))
         ELSE extract_response(Tail(content), response_text, blocks)

parse_response_first_text(content) ==
    LET texts == SelectSeq(content, LAMBDA b : b.type = "text") IN
    [text |-> IF Len(texts) = 0 THEN "" ELSE texts[1].text,
     tool_blocks |-> extract_response(content, "", <<>>).tool_blocks]
parse_response(content) == extract_response(content, "", <<>>)

\* _create_assistant_message: text item (if the text is non-empty) + tool_use blocks
_create_assistant_message(response_text, blocks) ==
    [role |-> "assistant",
     content |-> (IF response_text # "" THEN <<TextBlock(response_text)>> ELSE <<>>)
                     \o blocks]

\* _create_tool_result_message
_create_tool_result_message_as_assistant(tool_results) ==
    [role |-> "assistant", content |-> tool_results]
_create_tool_result_message(tool_results) ==
    [role |-> "user", content |-> tool_results]

\* _should_continue_to_next_round
_should_continue_only_on_success(r, execution_success) ==
    IF r >= max_tool_rounds THEN FALSE ELSE execution_success
_should_continue_to_next_round(r, execution_success) ==
    IF r >= max_tool_rounds THEN FALSE ELSE TRUE

\* for round_num in range(1, self.max_tool_rounds + 1): is there a next iteration?
range_has_next(r) == r + 1 < max_tool_rounds + 1

(***************************************************************************)
(* ToolManager.execute_tool and the result dict of _execute_tool_calls.    *)
(***************************************************************************)
\* What tool.execute(**kwargs) can do: return a text or raise.
ToolExecOutcomes ==
    {[raised |-> FALSE, value |-> "Tool executed successfully"],
     [raised |-> TRUE, value |-> "boom"]}

\* ToolManager.execute_tool
execute_tool_unchecked(registry, tool_name, tool_outcome) ==
    IF tool_name \notin registry
    THEN [raised |-> TRUE, value |-> "KeyError"]
    ELSE tool_outcome
execute_tool_strict(registry, tool_name, tool_outcome) ==
    IF tool_name \notin registry
    THEN [raised |-> TRUE, value |-> "Unknown tool: " \o tool_name]
    ELSE tool_outcome
execute_tool(registry, tool_name, tool_outcome) ==
    IF tool_name \notin registry
    THEN [raised |-> FALSE, value |-> "Tool '" \o tool_name \o "' not found"]
    ELSE tool_outcome

\* The prefix of the content of a failed execution (two CJK characters,
\* U+9519 U+8BEF, then a colon and a space).
ErrorPrefix == "U+9519 U+8BEF: "

\* _execute_tool_calls: the dict appended for one block (try / except branch)
tool_result_no_prefix(block, o) ==
    [type |-> "tool_result", tool_use_id |-> block.id,
     content |-> o.value, is_error |-> o.raised]
tool_result_unflagged(block, o) ==
    [type |-> "tool_result", tool_use_id |-> block.id,
     content |-> IF o.raised THEN ErrorPrefix \o o.value ELSE o.value,
     is_error |-> FALSE]
tool_result(block, o) ==
    IF ~o.raised
    THEN [type |-> "tool_result", tool_use_id |-> block.id,
          content |-> o.value, is_error |-> FALSE]
    ELSE [type |-> "tool_result", tool_use_id |-> block.id,
          content |-> ErrorPrefix \o o.value, is_error |-> TRUE]

\* _execute_tool_calls: the block the for loop visits after idx iterations
next_block_from_end(blocks, i) == blocks[Len(blocks) - i]
next_block(blocks, i) == blocks[i + 1]

\* _execute_tool_calls: has the for loop visited every block after i iterations?
loop_finished_off_by_one(blocks, i) == i > Len(blocks)
loop_finished_after_first(blocks, i) == i >= 1
loop_finished(blocks, i) == i >= Len(blocks)

\* _execute_tool_calls: results.append(...)
append_result_in_front(res, r) == <<r>> \o res
append_result(res, r) == Append(res, r)

\* _execute_tool_rounds line 123: `if not tool_blocks:` returns the text directly
no_tool_use_never(blocks) == FALSE
no_tool_use(blocks) == Len(blocks) = 0

\* _execute_tool_rounds line 147: the final call is made with tools=None
final_call_tools_kept(t) == t
final_call_tools(t) == [given |-> FALSE, defs |-> <<>>]

\* generate_response line 99: response.content[0].text
direct_text_last(content) == parse_response(content).text
direct_text(content) == content[1].text

\* client.messages.create raised: nothing in AIGenerator catches it, so the
\* invocation ends and the failure reaches the caller.
on_backend_failure_retry(p) == p
on_backend_failure(p) == "failed"

\* Steps E and F of _execute_tool_rounds after _execute_tool_calls returned
\* (tool_results, execution_success): append the tool-result message, then
\* break to the final call or start the next iteration of the for loop.
after_tools(msgs, r, tool_results, execution_success) ==
    LET continue == /\ _should_continue_to_next_round(r, execution_success)
                    /\ range_has_next(r)
    IN [messages |-> Append(msgs, _create_tool_result_message(tool_results)),
        round_num |-> IF continue THEN r + 1 ELSE r,
        pc |-> IF continue THEN "round_call" ELSE "final_call"]

(***************************************************************************)
(* search_tools.py: the tool objects and the ToolManager.                  *)
(***************************************************************************)
MaxDocs == 2             \* most passages one search returns

\* Tool objects: two CourseSearchTool instances, a CourseOutlineTool, and two
\* implementations of the Tool interface whose definition has no "name" key
\* (anon) or an empty name (blank).
SearchTools == {"s1", "s2"}
ToolObjects == SearchTools \cup {"o1", "anon", "blank"}

\* get_tool_definition of every tool object, reduced to its name.
get_tool_definition(t) ==
    IF t \in SearchTools THEN [has_name |-> TRUE, name |-> "search_course_content"]
    ELSE IF t = "o1" THEN [has_name |-> TRUE, name |-> "get_course_outline"]
    ELSE IF t = "blank" THEN [has_name |-> TRUE, name |-> ""]
    ELSE [has_name |-> FALSE, name |-> ""]

\* The names execute_tool is called with.
ExecNames == {"search_course_content", "get_course_outline", "missing_tool"}

\* The dict self.tools.
Names(reg) == {reg[i].name : i \in 1..Len(reg)}
Lookup(reg, name) == reg[CHOOSE i \in 1..Len(reg) : reg[i].name = name].tool

\* self.tools[tool_name] = tool: a new key goes to the end, an existing key
\* keeps its place and gets the new value.
dict_set_moves_to_end(reg, name, t) ==
    Append(SelectSeq(reg, LAMBDA e : e.name # name), [name |-> name, tool |-> t])
dict_set(reg, name, t) ==
    IF name \in Names(reg)
    THEN [i \in 1..Len(reg) |->
             IF reg[i].name = name THEN [name |-> name, tool |-> t] ELSE reg[i]]
    ELSE Append(reg, [name |-> name, tool |-> t])

\* ToolManager.register_tool: `if not tool_name` holds for a missing and for
\* an empty name.
register_tool_only_missing(reg, t) ==
    LET tool_def == get_tool_definition(t) IN
    IF ~tool_def.has_name
    THEN [raised |-> TRUE, tools |-> reg]
    ELSE [raised |-> FALSE, tools |-> dict_set(reg, tool_def.name, t)]
register_tool(reg, t) ==
    LET tool_def == get_tool_definition(t) IN
    IF ~tool_def.has_name \/ tool_def.name = ""
    THEN [raised |-> TRUE, tools |-> reg]
    ELSE [raised |-> FALSE, tools |-> dict_set(reg, tool_def.name, t)]

\* ToolManager.get_tool_definitions: the names of the definitions, in the
\* order of self.tools.values().
get_tool_definitions(reg) ==
    [i \in 1..Len(reg) |-> get_tool_definition(reg[i].tool).name]

\* What the environment of a tool's execute can be: bad keyword arguments
\* (it raises), a search error, no passage, or n passages.
ToolEnvs ==
    {[kind |-> "raise", n |-> 0], [kind |-> "error", n |-> 0],
     [kind |-> "empty", n |-> 0]}
        \cup {[kind |-> "docs", n |-> k] : k \in 1..MaxDocs}

\* The citations _format_results builds for n passages, marked with who searched.
Citations(who, n) == [i \in 1..n |-> who \o ToString(i)]

\* CourseSearchTool.execute / _format_results: the returned text and the
\* new value of self.last_sources.  Only a search that renders passages
\* assigns last_sources.
search_execute_accumulates(ls, env, who) ==
    IF env.kind = "error" THEN [text |-> "Search error", last_sources |-> ls]
    ELSE IF env.kind = "empty"
    THEN [text |-> "No relevant content found.", last_sources |-> ls]
    ELSE [text |-> "passages", last_sources |-> ls \o Citations(who, env.n)]
search_execute_clears_on_empty(ls, env, who) ==
    IF env.kind = "error" THEN [text |-> "Search error", last_sources |-> ls]
    ELSE IF env.kind = "empty"
    THEN [text |-> "No relevant content found.", last_sources |-> <<>>]
    ELSE [text |-> "passages", last_sources |-> Citations(who, env.n)]
search_execute_keeps_first(ls, env, who) ==
    IF env.kind = "error" THEN [text |-> "Search error", last_sources |-> ls]
    ELSE IF env.kind = "empty"
    THEN [text |-> "No relevant content found.", last_sources |-> ls]
    ELSE [text |-> "passages",
          last_sources |-> IF Len(ls) > 0 THEN ls ELSE Citations(who, env.n)]
search_execute(ls, env, who) ==
    IF env.kind = "error" THEN [text |-> "Search error", last_sources |-> ls]
    ELSE IF env.kind = "empty"
    THEN [text |-> "No relevant content found.", last_sources |-> ls]
    ELSE [text |-> "passages", last_sources |-> Citations(who, env.n)]

\* tool.execute(**kwargs) of a registered tool object: its outcome and the
\* new last_sources of all tool objects.
tool_execute(t, ls, env, who) ==
    IF env.kind = "raise"
    THEN [outcome |-> [raised |-> TRUE, value |-> "TypeError"], last_sources |-> ls]
    ELSE IF t \in SearchTools
    THEN LET r == search_execute(ls[t], env, who)
         IN [outcome |-> [raised |-> FALSE, value |-> r.text],
             last_sources |-> [ls EXCEPT ![t] = r.last_sources]]
    ELSE [outcome |-> [raised |-> FALSE, value |-> "outline"], last_sources |-> ls]

\* ToolManager.get_last_sources: the last_sources of the first tool, in dict
\* order, that has the attribute and a non-empty list.
RECURSIVE get_last_sources(_, _)
get_last_sources(reg, ls) ==
    IF Len(reg) = 0 THEN <<>>
    ELSE IF Head(reg).tool \in DOMAIN ls /\ Len(ls[Head(reg).tool]) > 0
    THEN ls[Head(reg).tool]
    ELSE get_last_sources(Tail(reg), ls)

\* ToolManager.reset_sources: every registered tool that has the attribute
\* gets an empty list.
reset_sources_first_only(reg, ls) ==
    [t \in DOMAIN ls |->
        IF Len(reg) > 0 /\ reg[1].tool = t THEN <<>> ELSE ls[t]]
reset_sources(reg, ls) ==
    [t \in DOMAIN ls |->
        IF \E i \in 1..Len(reg) : reg[i].tool = t THEN <<>> ELSE ls[t]]

NoCall == [op |-> "none", name |-> "", tool |-> "", raised |-> FALSE,
           text |-> "", list |-> <<>>, ran |-> ""]

TmInit ==
    /\ tm_tools = <<>>
    /\ last_sources = [t \in SearchTools |-> <<>>]
    /\ tm_last = NoCall
    /\ tm_first = <<>>
    /\ tm_since = [reset |-> FALSE, stored |-> FALSE, registered |-> FALSE]

NoCitations == [by |-> "", list |-> <<>>]

QInit ==
    /\ q_pc = <<>>
    /\ q_mode = [serialized |-> FALSE, resets |-> FALSE]
    /\ q_chan = NoCitations

VsInit == vs_call = [op |-> "none"]

StInit == st_pc = "fresh" /\ st_call = [op |-> "none"]

OlInit == ol_call = [op |-> "none"]

(***************************************************************************)
(* The state machine.                                                      *)
(***************************************************************************)
GenInit ==
    /\ pc = "idle"
    /\ tools = [given |-> FALSE, defs |-> <<>>]
    /\ tool_manager = [given |-> FALSE, registry |-> {}]
    /\ messages = <<>>
    /\ round_num = 0
    /\ tool_blocks = <<>>
    /\ idx = 0
    /\ results = <<>>
    /\ all_success = TRUE
    /\ result = ""
    /\ failure = "none"
    /\ trace = <<>>
    /\ inv = [earlier |-> "none", left |-> 0, query |-> ""]

Init ==
    /\ GenInit
    /\ TmInit
    /\ QInit
    /\ VsInit
    /\ StInit
    /\ OlInit

Running == pc \in {"direct_call", "round_call", "exec", "final_call"}
Terminal == pc \in {"done", "failed"}

\* generate_response is entered (lines 82-94): the history is built from the
\* query and the path is chosen.
\* generate_response line 92: if tools and tool_manager
use_tools_ignores_manager(t, tm) == Truthy(t)
use_tools(t, tm) == Truthy(t) /\ tm.given

Enter(query, t, tm, earlier, left) ==
    /\ pc \in {"idle", "done", "failed"}
    /\ inv' = [earlier |-> earlier, left |-> left, query |-> query]
    /\ tools' = t
    /\ tool_manager' = tm
    /\ messages' = _build_initial_messages(query)
    /\ round_num' = IF use_tools(t, tm) THEN 1 ELSE 0
    /\ tool_blocks' = <<>>
    /\ idx' = 0
    /\ results' = <<>>
    /\ all_success' = TRUE
    /\ result' = ""
    /\ failure' = "none"
    /\ trace' = <<>>
    /\ pc' = IF use_tools(t, tm) THEN "round_call" ELSE "direct_call"
    /\ UNCHANGED <<tm_vars, q_vars, vs_vars, st_vars, ol_vars>>

\* One generate_response call; what came before it is not observed.
Start(query, t, tm) == Enter(query, t, tm, inv.earlier, inv.left)

\* A generate_response call on an AIGenerator that may have been used before:
\* how the invocation before it ended and how long its history had grown are
\* observed.
Outcome == IF pc = "idle" THEN "none" ELSE pc
Invoke(query, t, tm) == Enter(query, t, tm, Outcome, Len(messages))

\* generate_response lines 96-99: the direct call of the no-tools path.
\* content[0] of an empty response raises IndexError, .text of a tool_use
\* item raises AttributeError; neither is caught.
DirectCall ==
    /\ pc = "direct_call"
    /\ \E o \in BackendOutcomes(NumApiCalls(trace) + 1) :
         /\ trace' = Append(trace, ApiEntry(direct_api_params(messages), o))
         /\ IF ~o.ok
            THEN /\ pc' = on_backend_failure(pc)
                 /\ failure' = "backend"
                 /\ result' = result
            ELSE IF Len(o.content) = 0
            THEN /\ pc' = "failed"
                 /\ failure' = "IndexError"
                 /\ result' = result
            ELSE IF o.content[1].type # "text"
            THEN /\ pc' = "failed"
                 /\ failure' = "AttributeError"
                 /\ result' = result
            ELSE /\ pc' = "done"
                 /\ failure' = failure
                 /\ result' = direct_text(o.content)
    /\ UNCHANGED <<tools, tool_manager, messages, round_num, tool_blocks, idx,
                   results, all_success>>
    /\ UNCHANGED <<inv, tm_vars, q_vars, vs_vars, st_vars, ol_vars>>

\* _execute_tool_rounds steps A-C (lines 116-129) of one iteration: the
\* backend call with tools, the direct return, the assistant message.
RoundCall ==
    /\ pc = "round_call"
    /\ \E o \in BackendOutcomes(NumApiCalls(trace) + 1) :
         /\ trace' = Append(trace, ApiEntry(api_params(messages, tools), o))
         /\ IF ~o.ok
            THEN /\ pc' = on_backend_failure(pc)
                 /\ failure' = "backend"
                 /\ UNCHANGED <<messages, round_num, tool_blocks, idx, results,
                                all_success, result>>
            ELSE LET parsed == parse_response(o.content) IN
                 IF no_tool_use(parsed.tool_blocks)
                 THEN /\ pc' = "done"
                      /\ result' = parsed.text
                      /\ UNCHANGED <<messages, round_num, tool_blocks, idx,
                                     results, all_success, failure>>
                 ELSE LET msgs == Append(messages,
                                    _create_assistant_message(parsed.text,
                                                              parsed.tool_blocks))
                      IN /\ tool_blocks' = parsed.tool_blocks
                         /\ UNCHANGED <<result, failure>>
                         /\ IF loop_finished(parsed.tool_blocks, 0)
                            THEN LET nxt == after_tools(msgs, round_num, <<>>, TRUE)
                                 IN /\ messages' = nxt.messages
                                    /\ round_num' = nxt.round_num
                                    /\ pc' = nxt.pc
                                    /\ UNCHANGED <<idx, results, all_success>>
                            ELSE /\ messages' = msgs
                                 /\ idx' = 0
                                 /\ results' = <<>>
                                 /\ all_success' = TRUE
                                 /\ pc' = "exec"
                                 /\ UNCHANGED round_num
    /\ UNCHANGED <<tools, tool_manager>>
    /\ UNCHANGED <<inv, tm_vars, q_vars, vs_vars, st_vars, ol_vars>>

\* _execute_tool_calls, one iteration of its for loop (lines 201-225): the
\* blocking execute_tool and the result dict; after the last block, steps E
\* and F of _execute_tool_rounds (lines 134-141).  results and all_success
\* are locals of _execute_tool_calls: they are gone when it returns.
ExecTool ==
    /\ pc = "exec"
    /\ idx < Len(tool_blocks)
    /\ \E tool_outcome \in ToolExecOutcomes :
         LET block == next_block(tool_blocks, idx)
             o == execute_tool(tool_manager.registry, block.name, tool_outcome)
             res == append_result(results, tool_result(block, o))
             success == all_success /\ ~o.raised
         IN /\ trace' = Append(trace, ExecEntry(block, o, round_num))
            /\ IF loop_finished(tool_blocks, idx + 1)
               THEN LET nxt == after_tools(messages, round_num, res, success)
                    IN /\ messages' = nxt.messages
                       /\ round_num' = nxt.round_num
                       /\ pc' = nxt.pc
                       /\ idx' = 0
                       /\ results' = <<>>
                       /\ all_success' = TRUE
               ELSE /\ idx' = idx + 1
                    /\ results' = res
                    /\ all_success' = success
                    /\ UNCHANGED <<messages, round_num, pc>>
    /\ UNCHANGED <<tools, tool_manager, tool_blocks, result, failure>>
    /\ UNCHANGED <<inv, tm_vars, q_vars, vs_vars, st_vars, ol_vars>>

\* _execute_tool_rounds lines 143-149: the forced final call without tools;
\* the tool_use blocks of its response are dropped.
FinalCall ==
    /\ pc = "final_call"
    /\ \E o \in BackendOutcomes(NumApiCalls(trace) + 1) :
         /\ trace' = Append(trace,
                         ApiEntry(api_params(messages, final_call_tools(tools)), o))
         /\ IF ~o.ok
            THEN /\ pc' = on_backend_failure(pc)
                 /\ failure' = "backend"
                 /\ result' = result
            ELSE /\ pc' = "done"
                 /\ failure' = failure
                 /\ result' = parse_response(o.content).text
    /\ UNCHANGED <<tools, tool_manager, messages, round_num, tool_blocks, idx,
                   results, all_success>>
    /\ UNCHANGED <<inv, tm_vars, q_vars, vs_vars, st_vars, ol_vars>>

Next ==
    \/ \E q \in Queries, t \in ToolsArgs, tm \in ManagerArgs : Start(q, t, tm)
    \/ DirectCall
    \/ RoundCall
    \/ ExecTool
    \/ FinalCall

Spec == Init /\ [][Next]_vars

\* A sequence of generate_response calls on one AIGenerator, with tool
\* managers in which the invoked name is or is not registered.
SessionNext ==
    \/ \E q \in Queries, t \in ToolsArgs, tm \in SessionManagers : Invoke(q, t, tm)
    \/ DirectCall
    \/ RoundCall
    \/ ExecTool
    \/ FinalCall

SessionSpec == Init /\ [][SessionNext]_vars

(***************************************************************************)
(* The ToolManager by itself: any sequence of calls of its five methods.   *)
(***************************************************************************)
\* ToolManager.register_tool
TmRegister(t) ==
    LET r == register_tool(tm_tools, t)
        name == get_tool_definition(t).name
    IN /\ tm_tools' = r.tools
       /\ tm_last' = [NoCall EXCEPT !.op = "register", !.name = name, !.tool = t,
                                    !.raised = r.raised,
                                    !.text = IF r.raised THEN "ValueError" ELSE ""]
       /\ tm_first' = IF r.raised \/ (\E i \in 1..Len(tm_first) : tm_first[i] = name)
                      THEN tm_first ELSE Append(tm_first, name)
       /\ tm_since' = [tm_since EXCEPT
                          !.registered = tm_since.registered \/ r.tools # tm_tools]
       /\ UNCHANGED <<last_sources, gen_vars, q_vars, vs_vars, st_vars, ol_vars>>

\* ToolManager.get_tool_definitions
TmGetDefinitions ==
    /\ tm_last' = [NoCall EXCEPT !.op = "get_defs",
                                 !.list = get_tool_definitions(tm_tools)]
    /\ UNCHANGED <<tm_tools, last_sources, tm_first, tm_since, gen_vars, q_vars,
                   vs_vars, st_vars, ol_vars>>

\* ToolManager.execute_tool: the dispatch and, for a registered name, the
\* execute of the tool object stored under it.
TmExecute(name, env) ==
    LET registered == name \in Names(tm_tools)
        ex == IF registered
              THEN tool_execute(Lookup(tm_tools, name), last_sources, env, "c")
              ELSE [outcome |-> [raised |-> FALSE, value |-> ""],
                    last_sources |-> last_sources]
        o == execute_tool(Names(tm_tools), name, ex.outcome)
    IN /\ last_sources' = ex.last_sources
       /\ tm_last' = [NoCall EXCEPT !.op = "execute", !.name = name,
                                    !.raised = o.raised, !.text = o.value,
                                    !.ran = IF registered
                                            THEN Lookup(tm_tools, name) ELSE ""]
       /\ tm_since' = [tm_since EXCEPT
                          !.stored = \/ tm_since.stored
                                     \/ /\ registered
                                        /\ Lookup(tm_tools, name) \in SearchTools
                                        /\ env.kind = "docs"]
       /\ UNCHANGED <<tm_tools, tm_first, gen_vars, q_vars, vs_vars, st_vars, ol_vars>>

\* ToolManager.get_last_sources
TmGetLastSources ==
    /\ tm_last' = [NoCall EXCEPT !.op = "get_sources",
                                 !.list = get_last_sources(tm_tools, last_sources)]
    /\ UNCHANGED <<tm_tools, last_sources, tm_first, tm_since, gen_vars, q_vars,
                   vs_vars, st_vars, ol_vars>>

\* ToolManager.reset_sources
TmResetSources ==
    /\ last_sources' = reset_sources(tm_tools, last_sources)
    /\ tm_last' = [NoCall EXCEPT !.op = "reset"]
    /\ tm_since' = [reset |-> TRUE, stored |-> FALSE, registered |-> FALSE]
    /\ UNCHANGED <<tm_tools, tm_first, gen_vars, q_vars, vs_vars, st_vars, ol_vars>>

RegistryNext ==
    \/ \E t \in ToolObjects : TmRegister(t)
    \/ TmGetDefinitions
    \/ \E name \in ExecNames, env \in ToolEnvs : TmExecute(name, env)
    \/ TmGetLastSources
    \/ TmResetSources

RegistrySpec == Init /\ [][RegistryNext]_vars

(***************************************************************************)
(* Callers' queries against one shared ToolManager.  A query is one        *)
(* generate_response (which dispatches searches and then returns or lets   *)
(* a backend failure propagate) followed, when it returned, by the         *)
(* caller's get_last_sources and, if the caller resets, reset_sources.     *)
(***************************************************************************)
MaxSearches == 2
QueryIds == {"A", "B"}
Ended == {"done", "failed"}

NewQuery == [pc |-> "idle", n |-> 0, owned |-> {}, last |-> <<>>,
             read |-> <<>>, after |-> FALSE]

\* The ToolManager as the application sets it up: the search tool, then the
\* outline tool.
QueryInit ==
    /\ GenInit
    /\ tm_tools = register_tool(register_tool(<<>>, "s1").tools, "o1").tools
    /\ last_sources = [t \in SearchTools |-> <<>>]
    /\ tm_last = NoCall
    /\ tm_first = get_tool_definitions(tm_tools)
    /\ tm_since = [reset |-> FALSE, stored |-> FALSE, registered |-> FALSE]
    /\ q_pc = [q \in QueryIds |-> NewQuery]
    /\ q_mode \in [serialized : BOOLEAN, resets : BOOLEAN]
    /\ q_chan = NoCitations
    /\ VsInit
    /\ StInit
    /\ OlInit

\* The mark on the citations of the k-th search of query q.
SearchTag(q, k) == q \o ToString(k) \o "."

\* _call_claude_api has no handler around client.messages.create: when the
\* call raises, nothing runs before the failure leaves generate_response,
\* and the tools keep their last_sources.
sources_after_failure_reset(reg, ls) == reset_sources(reg, ls)
sources_after_failure(reg, ls) == ls

\* The caller starts generate_response for query q.
QStart(q) ==
    /\ q_pc[q].pc = "idle"
    /\ q_mode.serialized =>
          \A p \in QueryIds \ {q} : q_pc[p].pc \in Ended \cup {"idle"}
    /\ q_pc' = [q_pc EXCEPT ![q].pc = "gen",
                            ![q].after = \A p \in QueryIds \ {q} :
                                            q_pc[p].pc \in Ended]
    /\ UNCHANGED <<gen_vars, tm_vars, q_mode, q_chan, vs_vars, st_vars, ol_vars>>

\* _execute_tool_calls of query q dispatches one search through
\* tool_manager.execute_tool.
QSearch(q, env) ==
    LET name == "search_course_content"
        tag == SearchTag(q, q_pc[q].n + 1)
        ex == tool_execute(Lookup(tm_tools, name), last_sources, env, tag)
        o == execute_tool(Names(tm_tools), name, ex.outcome)
        stores == env.kind = "docs"
        cited == {Citations(tag, env.n)[i] : i \in 1..env.n}
    IN /\ q_pc[q].pc = "gen"
       /\ q_pc[q].n < MaxSearches
       /\ last_sources' = ex.last_sources
       /\ q_pc' = [q_pc EXCEPT
                      ![q].n = @ + 1,
                      ![q].owned = IF stores THEN @ \cup cited ELSE @,
                      ![q].last = IF stores THEN Citations(tag, env.n) ELSE @]
       /\ q_chan' = IF stores
                    THEN [by |-> q, list |-> Citations(tag, env.n)]
                    ELSE q_chan
       /\ tm_last' = [NoCall EXCEPT !.op = "execute", !.name = name,
                                    !.raised = o.raised, !.text = o.value,
                                    !.ran = Lookup(tm_tools, name)]
       /\ UNCHANGED <<gen_vars, tm_tools, tm_first, tm_since, q_mode, vs_vars, st_vars, ol_vars>>

\* generate_response of query q returns its text to the caller.
QReturn(q) ==
    /\ q_pc[q].pc = "gen"
    /\ q_pc' = [q_pc EXCEPT ![q].pc = "returned"]
    /\ UNCHANGED <<gen_vars, tm_vars, q_mode, q_chan, vs_vars, st_vars, ol_vars>>

\* A backend call of query q fails: the failure propagates out of
\* generate_response and out of the caller, which reads and resets nothing.
QFail(q) ==
    /\ q_pc[q].pc = "gen"
    /\ q_pc' = [q_pc EXCEPT ![q].pc = on_backend_failure("gen")]
    /\ last_sources' = sources_after_failure(tm_tools, last_sources)
    /\ UNCHANGED <<gen_vars, tm_tools, tm_last, tm_first, tm_since, q_mode, q_chan,
                   vs_vars, st_vars, ol_vars>>

\* The caller reads the citations of query q.
QRead(q) ==
    /\ q_pc[q].pc = "returned"
    /\ q_pc' = [q_pc EXCEPT ![q].pc = "read",
                            ![q].read = get_last_sources(tm_tools, last_sources)]
    /\ tm_last' = [NoCall EXCEPT !.op = "get_sources",
                                 !.list = get_last_sources(tm_tools, last_sources)]
    /\ UNCHANGED <<gen_vars, tm_tools, last_sources, tm_first, tm_since, q_mode,
                   q_chan, vs_vars, st_vars, ol_vars>>

\* The caller that resets calls reset_sources; the query is over.
QReset(q) ==
    /\ q_pc[q].pc = "read"
    /\ q_mode.resets
    /\ last_sources' = reset_sources(tm_tools, last_sources)
    /\ q_pc' = [q_pc EXCEPT ![q].pc = "done"]
    /\ q_chan' = NoCitations
    /\ tm_last' = [NoCall EXCEPT !.op = "reset"]
    /\ UNCHANGED <<gen_vars, tm_tools, tm_first, tm_since, q_mode, vs_vars, st_vars, ol_vars>>

\* The caller that does not reset is done after the read.
QSkipReset(q) ==
    /\ q_pc[q].pc = "read"
    /\ ~q_mode.resets
    /\ q_pc' = [q_pc EXCEPT ![q].pc = "done"]
    /\ UNCHANGED <<gen_vars, tm_vars, q_mode, q_chan, vs_vars, st_vars, ol_vars>>

QueryNext ==
    \E q \in QueryIds :
        \/ QStart(q)
        \/ \E env \in ToolEnvs : QSearch(q, env)
        \/ QReturn(q)
        \/ QFail(q)
        \/ QRead(q)
        \/ QReset(q)
        \/ QSkipReset(q)

QuerySpec == QueryInit /\ [][QueryNext]_vars

(***************************************************************************)
(* VectorStore.search (the RetrievalIndex of the specification, 4.5).  *)
(* The catalog and the two indexes are the environment of one call.        *)
(***************************************************************************)
Titles == {"Introduction to RAG", "MCP Basics"}
CourseFilters == {"RAG", "Introduction to RAG", "Nonexistent"}
MaxLesson == 2

\* An optional argument: None, or a value.
NoStr == [given |-> FALSE, value |-> ""]
NoInt == [given |-> FALSE, value |-> 0]
Some(v) == [given |-> TRUE, value |-> v]

\* What one call can meet: the catalog's titles, whether the catalog query
\* fails, which entry the similarity query ranks first for a string that is
\* no title, and whether the content query fails or how many passages it finds.
Causes == {"DB Error", "timeout"}
SearchEnvs ==
    [catalog : SUBSET Titles, catalog_fails : BOOLEAN, nearest : Titles,
     content_fails : BOOLEAN, cause : Causes, n : 0..MaxDocs]

\* resolveCourseName: the canonical title of the top-1 catalog entry, or
\* none when the catalog is empty or the catalog query fails.  No threshold:
\* the nearest entry is accepted however far it is.
_resolve_course_name_nearest_only(partial, env) ==
    IF env.catalog_fails \/ env.catalog = {} THEN NoStr
    ELSE IF env.nearest \in env.catalog THEN Some(env.nearest)
    ELSE Some(CHOOSE t \in env.catalog : TRUE)
_resolve_course_name(partial, env) ==
    IF env.catalog_fails \/ env.catalog = {} THEN NoStr
    ELSE IF partial \in env.catalog THEN Some(partial)
    ELSE IF env.nearest \in env.catalog THEN Some(env.nearest)
    ELSE Some(CHOOSE t \in env.catalog : TRUE)

\* The metadata filter composed from the resolved title and the lesson number.
CourseClause(title) == [field |-> "course_title", title |-> title, number |-> 0]
LessonClause(n) == [field |-> "lesson_number", title |-> "", number |-> n]
_build_filter_truthy(course_title, lesson_number) ==
    IF ~course_title.given /\ (~lesson_number.given \/ lesson_number.value = 0)
    THEN [op |-> "none", clauses |-> <<>>]
    ELSE IF course_title.given /\ lesson_number.given /\ lesson_number.value # 0
    THEN [op |-> "and", clauses |-> <<CourseClause(course_title.value),
                                      LessonClause(lesson_number.value)>>]
    ELSE IF course_title.given
    THEN [op |-> "eq", clauses |-> <<CourseClause(course_title.value)>>]
    ELSE [op |-> "eq", clauses |-> <<LessonClause(lesson_number.value)>>]
_build_filter(course_title, lesson_number) ==
    IF ~course_title.given /\ ~lesson_number.given
    THEN [op |-> "none", clauses |-> <<>>]
    ELSE IF course_title.given /\ lesson_number.given
    THEN [op |-> "and", clauses |-> <<CourseClause(course_title.value),
                                      LessonClause(lesson_number.value)>>]
    ELSE IF course_title.given
    THEN [op |-> "eq", clauses |-> <<CourseClause(course_title.value)>>]
    ELSE [op |-> "eq", clauses |-> <<LessonClause(lesson_number.value)>>]

\* SearchResults.empty(error_msg) and a successful result set.
SearchResults_empty(msg) ==
    [documents |-> <<>>, metadata |-> <<>>, distances |-> <<>>, error |-> Some(msg)]
SearchResults_found(n) ==
    [documents |-> [i \in 1..n |-> "doc" \o ToString(i)],
     metadata |-> [i \in 1..n |-> "meta" \o ToString(i)],
     distances |-> [i \in 1..n |-> i], error |-> NoStr]

\* The title the course clause of the filter is built from.
filter_title_partial(course_name, resolved) == course_name
filter_title(course_name, resolved) == resolved

\* The content query and what search makes of it: a failure of the index is
\* caught and becomes an error result.
content_outcome_raises(env) ==
    IF env.content_fails
    THEN [raised |-> TRUE, result |-> SearchResults_found(0)]
    ELSE [raised |-> FALSE, result |-> SearchResults_found(env.n)]
content_outcome_keeps_documents(env) ==
    IF env.content_fails
    THEN [raised |-> FALSE,
          result |-> [SearchResults_found(env.n) EXCEPT
                         !.error = Some("Search error: " \o env.cause)]]
    ELSE [raised |-> FALSE, result |-> SearchResults_found(env.n)]
content_outcome(env) ==
    IF env.content_fails
    THEN [raised |-> FALSE,
          result |-> SearchResults_empty("Search error: " \o env.cause)]
    ELSE [raised |-> FALSE, result |-> SearchResults_found(env.n)]

\* search(query, course_name, lesson_number): what it returns and which
\* indexes it queried, in which order and with which filter.
search_no_short_circuit(query, course_name, lesson_number, env) ==
    LET resolved == IF course_name.given
                    THEN _resolve_course_name(course_name.value, env) ELSE NoStr
    IN [op |-> "search", query |-> query, course_name |-> course_name,
        lesson_number |-> lesson_number, env |-> env, resolved |-> resolved,
        catalog_queried |-> course_name.given, content_queried |-> TRUE,
        log |-> (IF course_name.given THEN <<"catalog">> ELSE <<>>) \o <<"content">>,
        where |-> _build_filter(filter_title(course_name, resolved), lesson_number)]
       @@ content_outcome(env)
search(query, course_name, lesson_number, env) ==
    LET resolved == IF course_name.given
                    THEN _resolve_course_name(course_name.value, env) ELSE NoStr
        call == [op |-> "search", query |-> query, course_name |-> course_name,
                 lesson_number |-> lesson_number, env |-> env, resolved |-> resolved,
                 catalog_queried |-> course_name.given]
    IN IF course_name.given /\ ~resolved.given
       THEN call @@ [content_queried |-> FALSE, log |-> <<"catalog">>,
                     where |-> [op |-> "none", clauses |-> <<>>],
                     raised |-> FALSE,
                     result |-> SearchResults_empty(
                        "No course found matching '" \o course_name.value \o "'")]
       ELSE call @@ [content_queried |-> TRUE,
                     log |-> (IF course_name.given THEN <<"catalog">> ELSE <<>>)
                                \o <<"content">>,
                     where |-> _build_filter(filter_title(course_name, resolved),
                                             lesson_number)]
                 @@ content_outcome(env)

\* One call of search, on a store that has not been called yet.
VsSearch(query, course_name, lesson_number, env) ==
    /\ vs_call.op = "none"
    /\ vs_call' = search(query, course_name, lesson_number, env)
    /\ UNCHANGED <<gen_vars, tm_vars, q_vars, st_vars, ol_vars>>

\* One call of _resolve_course_name, on a store that has not been called yet.
VsResolve(partial, env) ==
    /\ vs_call.op = "none"
    /\ vs_call' = [op |-> "resolve", partial |-> partial, env |-> env,
                   resolved |-> _resolve_course_name(partial, env)]
    /\ UNCHANGED <<gen_vars, tm_vars, q_vars, st_vars, ol_vars>>

SearchNext ==
    \/ \E query \in Queries, env \in SearchEnvs,
          course_name \in {NoStr} \cup {Some(c) : c \in CourseFilters},
          lesson_number \in {NoInt} \cup {Some(n) : n \in 0..MaxLesson} :
           VsSearch(query, course_name, lesson_number, env)
    \/ \E partial \in CourseFilters \cup Titles, env \in SearchEnvs :
           VsResolve(partial, env)

SearchSpec == Init /\ [][SearchNext]_vars

(***************************************************************************)
(* CourseSearchTool.execute on one tool object ("s1"), against a store     *)
(* whose search result and link lookups are the environment of the call.   *)
(***************************************************************************)
\* The metadata of a passage: meta.get("course_title") and
\* meta.get("lesson_number"), either of which can be missing.
Passages ==
    {[course_title |-> Some("MCP"), lesson_number |-> NoInt],
     [course_title |-> Some("MCP"), lesson_number |-> Some(0)],
     [course_title |-> Some("MCP"), lesson_number |-> Some(1)],
     [course_title |-> NoStr, lesson_number |-> NoInt]}

\* What store.get_lesson_link and store.get_course_link return: a link or None.
NoLinks == [lesson |-> [n \in {0, 1} |-> NoStr], course |-> NoStr]
LinkEnvs ==
    [lesson : [{0, 1} -> {NoStr, Some("http://l")}],
     course : {NoStr, Some("http://c")}]

\* The result sets store.search can hand to the tool.
ErrorResults ==
    {SearchResults_empty(e) :
        e \in {"Search error: DB Error", "No course found matching 'MCP'"}}
EmptyResults == [documents |-> <<>>, metadata |-> <<>>, distances |-> <<>>,
                 error |-> NoStr]
FoundResults ==
    {[documents |-> [i \in 1..Len(ms) |-> "doc" \o ToString(i)], metadata |-> ms,
      distances |-> [i \in 1..Len(ms) |-> i], error |-> NoStr] :
        ms \in UNION {[1..k -> Passages] : k \in 1..MaxDocs}}

\* The calls of execute: every filter combination for a search that fails or
\* finds nothing, every store for a search that finds passages.
ExecuteCalls ==
    {[course_name |-> c, lesson_number |-> l, results |-> r, links |-> NoLinks] :
        c \in {NoStr, Some("MCP")},
        l \in {NoInt} \cup {Some(n) : n \in 0..MaxLesson},
        r \in ErrorResults \cup {EmptyResults}}
    \cup
    {[course_name |-> NoStr, lesson_number |-> NoInt, results |-> r, links |-> k] :
        r \in FoundResults, k \in LinkEnvs}

\* Python truth of an optional string or integer argument.
truthy_str(o) == o.given /\ o.value # ""
truthy_int(o) == o.given /\ o.value # 0

Anchor(link, display) ==
    "<a href=\"" \o link \o "\" target=\"_blank\" rel=\"noopener noreferrer\">"
        \o display \o "</a>"
TitleOf(meta) == IF meta.course_title.given THEN meta.course_title.value ELSE "unknown"
LessonDisplay(meta) ==
    TitleOf(meta) \o " - Lesson " \o ToString(meta.lesson_number.value)
course_link_of(meta, links) ==
    IF meta.course_title.given THEN links.course ELSE NoStr

\* _format_results, the header of one passage.
header(meta) ==
    IF meta.lesson_number.given THEN "[" \o LessonDisplay(meta) \o "]"
    ELSE "[" \o TitleOf(meta) \o "]"

\* _format_results, the citation of one passage.
source_html_truthy_lesson(meta, links) ==
    IF truthy_int(meta.lesson_number)
    THEN IF truthy_str(links.lesson[meta.lesson_number.value])
         THEN Anchor(links.lesson[meta.lesson_number.value].value, LessonDisplay(meta))
         ELSE LessonDisplay(meta)
    ELSE IF truthy_str(course_link_of(meta, links))
         THEN Anchor(course_link_of(meta, links).value, TitleOf(meta))
         ELSE TitleOf(meta)
source_html(meta, links) ==
    IF meta.lesson_number.given
    THEN IF truthy_str(links.lesson[meta.lesson_number.value])
         THEN Anchor(links.lesson[meta.lesson_number.value].value, LessonDisplay(meta))
         ELSE LessonDisplay(meta)
    ELSE IF truthy_str(course_link_of(meta, links))
         THEN Anchor(course_link_of(meta, links).value, TitleOf(meta))
         ELSE TitleOf(meta)

\* "\n\n".join(formatted)
RECURSIVE join(_)
join(parts) ==
    IF Len(parts) = 0 THEN ""
    ELSE IF Len(parts) = 1 THEN parts[1]
    ELSE parts[1] \o "\n\n" \o join(Tail(parts))

\* _format_results: the rendered text and the new self.last_sources.
_format_results_extends(found, links, ls) ==
    LET n == Len(found.documents) IN
    [text |-> join([i \in 1..n |->
                       header(found.metadata[i]) \o "\n" \o found.documents[i]]),
     last_sources |-> ls \o [i \in 1..n |-> source_html(found.metadata[i], links)]]
_format_results(found, links, ls) ==
    LET n == Len(found.documents) IN
    [text |-> join([i \in 1..n |->
                       header(found.metadata[i]) \o "\n" \o found.documents[i]]),
     last_sources |-> [i \in 1..n |-> source_html(found.metadata[i], links)]]

\* The message of a search that found nothing.
filter_info(course_name, lesson_number) ==
    (IF truthy_str(course_name)
     THEN " in course '" \o course_name.value \o "'" ELSE "")
    \o (IF truthy_int(lesson_number)
        THEN " in lesson " \o ToString(lesson_number.value) ELSE "")

\* CourseSearchTool.execute: the returned text and the new self.last_sources.
CourseSearchTool_execute_empty_first(call, ls) ==
    IF Len(call.results.documents) = 0
    THEN [text |-> "No relevant content found"
                      \o filter_info(call.course_name, call.lesson_number) \o ".",
          last_sources |-> ls]
    ELSE IF truthy_str(call.results.error)
    THEN [text |-> call.results.error.value, last_sources |-> ls]
    ELSE _format_results(call.results, call.links, ls)
CourseSearchTool_execute(call, ls) ==
    IF truthy_str(call.results.error)
    THEN [text |-> call.results.error.value, last_sources |-> ls]
    ELSE IF Len(call.results.documents) = 0
    THEN [text |-> "No relevant content found"
                      \o filter_info(call.course_name, call.lesson_number) \o ".",
          last_sources |-> ls]
    ELSE _format_results(call.results, call.links, ls)

\* One call of execute on the tool; two calls in a row are followed.
StExecute(call) ==
    LET r == CourseSearchTool_execute(call, last_sources["s1"]) IN
    /\ st_pc \in {"fresh", "used"}
    /\ st_pc' = IF st_pc = "fresh" THEN "used" ELSE "done"
    /\ last_sources' = [last_sources EXCEPT !["s1"] = r.last_sources]
    /\ st_call' = call @@ [op |-> "execute", before |-> last_sources["s1"],
                           text |-> r.text]
    /\ UNCHANGED <<gen_vars, tm_tools, tm_last, tm_first, tm_since, q_vars, vs_vars,
                   ol_vars>>

ToolNext == \E call \in ExecuteCalls : StExecute(call)

ToolSpec == Init /\ [][ToolNext]_vars

(***************************************************************************)
(* CourseOutlineTool.execute, against a store whose name resolution and    *)
(* catalog lookup are the environment of the call.                         *)
(***************************************************************************)
\* What course_catalog.get(ids=[title]) can do: raise, return nothing, return
\* a result without metadatas, or return the record of the course, whose
\* lessons_json is missing, is no JSON, or decodes to a list of lessons.
Lesson(n) == [lesson_number |-> n, lesson_title |-> "L" \o ToString(n)]
CatalogGets ==
    {[kind |-> k, lessons |-> <<>>] :
        k \in {"raises", "none", "no_metadatas", "no_lessons_json", "bad_json"}}
    \cup {[kind |-> "record", lessons |-> [i \in 1..n |-> Lesson(i - 1)]] :
            n \in 0..MaxLesson}

\* The lines "  Lesson <n>: <title>" of the outline.
RECURSIVE lesson_lines(_)
lesson_lines(lessons) ==
    IF Len(lessons) = 0 THEN ""
    ELSE "\n  Lesson " \o ToString(Head(lessons).lesson_number) \o ": "
            \o Head(lessons).lesson_title \o lesson_lines(Tail(lessons))

\* The body of the try block: what it returns, or that it raised.
outline_body(resolved_title, got) ==
    IF got.kind = "raises" THEN [raised |-> TRUE, value |-> "catalog unavailable"]
    ELSE IF got.kind \in {"none", "no_metadatas"}
    THEN [raised |-> FALSE,
          value |-> "Course metadata not found for '" \o resolved_title \o "'"]
    ELSE IF got.kind = "no_lessons_json"
    THEN [raised |-> FALSE,
          value |-> "Course: " \o resolved_title
                       \o "\nInstructor: Unknown\nLink: No link available"
                       \o "\n\nNo lesson information available."]
    ELSE IF got.kind = "bad_json"
    THEN [raised |-> TRUE, value |-> "Expecting value"]
    ELSE [raised |-> FALSE,
          value |-> "Course: " \o resolved_title
                       \o "\nInstructor: Unknown\nCourse Link: No link available"
                       \o "\n\nLessons:" \o lesson_lines(got.lessons)]

\* except Exception as e: the failure of the try block becomes a text.
outline_except_reraises(o) == o
outline_except(o) ==
    IF o.raised
    THEN [raised |-> FALSE, value |-> "Error retrieving course outline: " \o o.value]
    ELSE o

\* CourseOutlineTool.execute
CourseOutlineTool_execute(course_title, env, got) ==
    LET resolved_title == _resolve_course_name(course_title, env) IN
    IF ~truthy_str(resolved_title)
    THEN [raised |-> FALSE,
          value |-> "No course found matching '" \o course_title \o "'"]
    ELSE outline_except(outline_body(resolved_title.value, got))

\* One call of execute, on a tool that has not been called yet.
OlExecute(course_title, env, got) ==
    /\ ol_call.op = "none"
    /\ ol_call' = [op |-> "execute", course_title |-> course_title, env |-> env,
                   got |-> got]
                  @@ CourseOutlineTool_execute(course_title, env, got)
    /\ UNCHANGED <<gen_vars, tm_vars, q_vars, vs_vars, st_vars>>

ResolveEnvs ==
    {e \in SearchEnvs : ~e.content_fails /\ e.n = 0 /\ e.cause = "DB Error"}

OutlineNext ==
    \E course_title \in CourseFilters, env \in ResolveEnvs, got \in CatalogGets :
        OlExecute(course_title, env, got)

OutlineSpec == Init /\ [][OutlineNext]_vars

\* The code runs: a blocking call that returns or raises lets the chain go on.
\* The caller is free never to invoke generate_response again.
FairSpec ==
    Spec /\ WF_vars(DirectCall) /\ WF_vars(RoundCall) /\ WF_vars(ExecTool)
         /\ WF_vars(FinalCall)

(***************************************************************************)
(* Properties.                                                             *)
(***************************************************************************)
\* The contract value of the round bound (spec section 4.1).
maxRounds == 2

\* The responses of the backend calls that returned, in call order.
ApiCall(n) == ApiCalls(trace)[n]
HasToolUse(content) == \E i \in 1..Len(content) : content[i].type = "tool_use"

\* C1: whatever the backend answers and whatever the tools do, one
\* generate_response invocation makes at most maxRounds + 1 = 3 backend calls.
C1_AtMostThreeCalls == NumApiCalls(trace) <= maxRounds + 1

\* C1 witness: an invocation that returned after using all three calls.
C1_Witness == pc = "done" /\ NumApiCalls(trace) = maxRounds + 1

\* C2: when every backend call and every tool execution returns or raises, a
\* running generate_response always reaches a terminal state: it returns a
\* text or a failure propagates.
C2_Terminates == Running ~> Terminal

\* C2 witness: the invocation returned although the response to the forced
\* final call contained tool invocations.
C2_Witness ==
    /\ pc = "done"
    /\ NumApiCalls(trace) = maxRounds + 1
    /\ ~ApiCall(maxRounds + 1).has_tools
    /\ HasToolUse(ApiCall(maxRounds + 1).content)

\* Reading a response and the log.
ToolUses(content) == SelectSeq(content, LAMBDA b : b.type = "tool_use")
TextItems(content) == SelectSeq(content, LAMBDA b : b.type = "text")
IdsOf(blocks) == [i \in 1..Len(blocks) |-> blocks[i].id]
LastText(content) ==
    IF Len(TextItems(content)) = 0 THEN ""
    ELSE TextItems(content)[Len(TextItems(content))].text
FirstText(content) == TextItems(content)[1].text

\* The tool executions logged after the n-th backend call and before the next one.
RECURSIVE ExecsAfter(_, _, _)
ExecsAfter(tr, n, seen) ==
    IF Len(tr) = 0 THEN <<>>
    ELSE IF Head(tr).type = "api" THEN ExecsAfter(Tail(tr), n, seen + 1)
    ELSE (IF seen = n THEN <<Head(tr)>> ELSE <<>>) \o ExecsAfter(Tail(tr), n, seen)
ExecsOfCall(n) == ExecsAfter(trace, n, 0)

\* The invocation runs the round loop (it was given tools and a tool manager).
ToolPath == Truthy(tools) /\ tool_manager.given

\* The n-th call returned a response that requests tools.
RequestsTools(n) ==
    /\ n <= NumApiCalls(trace)
    /\ ApiCall(n).ok
    /\ HasToolUse(ApiCall(n).content)

\* C3: if the model requests tools in every one of the maxRounds rounds, the
\* invocation makes exactly maxRounds + 1 backend calls, the last one carries
\* neither tool definitions nor a tool choice, every earlier one carries both,
\* and the text returned is the text of the last call.
C3_ForcedFinalCall ==
    (ToolPath /\ Terminal /\ \A n \in 1..maxRounds : RequestsTools(n)) =>
        /\ NumApiCalls(trace) = maxRounds + 1
        /\ ~ApiCall(maxRounds + 1).has_tools
        /\ ~ApiCall(maxRounds + 1).has_tool_choice
        /\ \A n \in 1..maxRounds :
              ApiCall(n).has_tools /\ ApiCall(n).has_tool_choice
        /\ pc = "done" => result = LastText(ApiCall(maxRounds + 1).content)

\* C3 witness: both rounds requested tools and the final call returned a text.
C3_Witness ==
    /\ ToolPath /\ pc = "done"
    /\ \A n \in 1..maxRounds : RequestsTools(n)
    /\ result # ""

\* C4: if the model requests tools in k < maxRounds consecutive rounds and
\* then answers without a tool invocation, the invocation has made exactly
\* k + 1 backend calls, all of them with tool definitions (there is no forced
\* final call), and it returns the text of call k + 1.
C4_DirectReturn ==
    \A k \in 0..(maxRounds - 1) :
        ( /\ ToolPath
          /\ \A n \in 1..k : RequestsTools(n)
          /\ k + 1 <= NumApiCalls(trace)
          /\ ApiCall(k + 1).ok
          /\ ~HasToolUse(ApiCall(k + 1).content) ) =>
            /\ NumApiCalls(trace) = k + 1
            /\ \A n \in 1..(k + 1) : ApiCall(n).has_tools
            /\ pc = "done"
            /\ result = LastText(ApiCall(k + 1).content)

\* C4 witness: one round of tools, then a plain answer on the second call.
C4_Witness ==
    /\ ToolPath /\ pc = "done"
    /\ NumApiCalls(trace) = 2
    /\ RequestsTools(1)
    /\ ~HasToolUse(ApiCall(2).content)
    /\ result # ""

\* A history in which every tool-result message directly follows the
\* assistant message whose invocations it answers, one result per invocation,
\* the i-th result carrying the id of the i-th invocation.
Paired(ms) ==
    \A j \in 2..Len(ms) :
        ms[j].role = "user" =>
            /\ ms[j - 1].role = "assistant"
            /\ Len(ms[j].content) = Len(ToolUses(ms[j - 1].content))
            /\ \A i \in 1..Len(ms[j].content) :
                  ms[j].content[i].tool_use_id = ToolUses(ms[j - 1].content)[i].id

\* C5: in the history sent with any backend call, every tool-result message
\* is immediately preceded by an assistant message with the same number of
\* tool items, and the i-th result carries the id of the i-th invocation;
\* also when executions raised.
C5_Pairing == \A n \in 1..NumApiCalls(trace) : Paired(ApiCall(n).messages)

\* C5 witness: a call was sent a history holding a tool-result message with
\* two results, one of them from an execution that raised.
C5_Witness ==
    \E n \in 1..NumApiCalls(trace) :
        \E j \in 2..Len(ApiCall(n).messages) :
            /\ ApiCall(n).messages[j].role = "user"
            /\ Len(ApiCall(n).messages[j].content) = 2
            /\ ApiCall(n).messages[j].content[1].is_error

\* The invocations the n-th call's response requests from the round loop:
\* those of a response to a call that carried the tool definitions.
Requested(n) ==
    IF ApiCall(n).ok /\ ApiCall(n).has_tools
    THEN ToolUses(ApiCall(n).content) ELSE <<>>

IsPrefix(a, b) == Len(a) <= Len(b) /\ \A i \in 1..Len(a) : a[i] = b[i]

\* Round n is complete: its tool-result message is in the history.
RoundCompleted(n) == ToolPath /\ RequestsTools(n) /\ Len(messages) >= 2 * n + 1

\* C6: the invocations of a round are executed one at a time in the order the
\* model requested them, and all of them before the next backend call: in the
\* log, the executions between call n and call n + 1 are a prefix of the
\* requested invocations while the round runs, and all of them, in order,
\* once call n + 1 is logged.
C6_ExecutionOrder ==
    \A n \in 1..NumApiCalls(trace) :
        ApiCall(n).has_tools =>
            /\ IsPrefix(IdsOf(ExecsOfCall(n)), IdsOf(Requested(n)))
            /\ (n < NumApiCalls(trace) \/ pc # "exec") =>
                  IdsOf(ExecsOfCall(n)) = IdsOf(Requested(n))

\* C6 witness: both rounds executed two invocations each and the final call
\* was made.
C6_Witness ==
    /\ NumApiCalls(trace) = maxRounds + 1
    /\ \A n \in 1..maxRounds : Len(ExecsOfCall(n)) = 2

\* C7: an execution that raises does not abort the round: in a completed
\* round every requested invocation was executed, the tool-result message
\* holds exactly one result per invocation, and the i-th result is flagged
\* is_error exactly when the i-th execution raised.
C7_RaiseDoesNotAbort ==
    \A n \in 1..maxRounds :
        RoundCompleted(n) =>
            /\ IdsOf(ExecsOfCall(n)) = IdsOf(Requested(n))
            /\ Len(messages[2 * n + 1].content) = Len(Requested(n))
            /\ \A i \in 1..Len(Requested(n)) :
                  /\ messages[2 * n + 1].content[i].tool_use_id = Requested(n)[i].id
                  /\ messages[2 * n + 1].content[i].is_error = ExecsOfCall(n)[i].raised

\* C7 witness: a completed round of two invocations whose first execution
\* raised and whose second one returned.
C7_Witness ==
    \E n \in 1..maxRounds :
        /\ RoundCompleted(n)
        /\ Len(ExecsOfCall(n)) = 2
        /\ ExecsOfCall(n)[1].raised
        /\ ~ExecsOfCall(n)[2].raised

\* C8: a failed backend call is neither retried nor caught: it is the last
\* thing the invocation does (no later backend call, no later tool
\* execution) and the failure reaches the caller.
C8_BackendFailurePropagates ==
    \A i \in 1..Len(trace) :
        (trace[i].type = "api" /\ ~trace[i].ok) =>
            /\ i = Len(trace)
            /\ pc = "failed"
            /\ failure = "backend"

\* C8 witness: the second backend call failed after the tools of round 1 ran.
C8_Witness ==
    /\ pc = "failed"
    /\ NumApiCalls(trace) = 2
    /\ ~ApiCall(2).ok
    /\ Len(ExecsOfCall(1)) > 0

\* C9: on the no-tools path the invocation makes exactly one backend call,
\* without tool definitions, executes no tool, and the text it returns is the
\* first text item of that call's response.
C9_NoToolsPath ==
    (~ToolPath /\ pc # "idle") =>
        /\ NumApiCalls(trace) <= 1
        /\ Len(ToolExecs(trace)) = 0
        /\ Terminal =>
              /\ NumApiCalls(trace) = 1
              /\ ~ApiCall(1).has_tools
              /\ ~ApiCall(1).has_tool_choice
        /\ pc = "done" => result = FirstText(ApiCall(1).content)

\* C9 witness: the no-tools path returned from a response with two text items.
C9_Witness ==
    /\ ~ToolPath /\ pc = "done"
    /\ Len(TextItems(ApiCall(1).content)) = 2

\* C10: whether the loop goes on depends on the round number only: after a
\* completed round r < maxRounds the next backend call carries the tool
\* definitions, and after round maxRounds it does not, whether or not an
\* execution of the round raised; a raised execution is in the tool-result
\* message as an error-flagged result.
C10_FailureDoesNotEndToolUse ==
    \A r \in 1..maxRounds :
        RoundCompleted(r) =>
            /\ NumApiCalls(trace) = r =>
                  pc = (IF r < maxRounds THEN "round_call" ELSE "final_call")
            /\ NumApiCalls(trace) > r => (ApiCall(r + 1).has_tools <=> r < maxRounds)
            /\ \A i \in 1..Len(ExecsOfCall(r)) :
                  ExecsOfCall(r)[i].raised => messages[2 * r + 1].content[i].is_error

\* C10 witness: every execution of round 1 raised and the second backend
\* call was made with the tool definitions.
C10_Witness ==
    /\ RoundCompleted(1)
    /\ \A i \in 1..Len(ExecsOfCall(1)) : ExecsOfCall(1)[i].raised
    /\ NumApiCalls(trace) >= 2
    /\ ApiCall(2).has_tools

\* The i-th result of the tool-result message of the completed round r.
ResultOf(r, i) == messages[2 * r + 1].content[i]

\* C11 as claimed: the result of an execution that raised has the content
\* "error: <cause>", <cause> being the text of the raised failure.
C11_ErrorContentAsClaimed ==
    \A r \in 1..maxRounds :
        RoundCompleted(r) =>
            \A i \in 1..Len(ExecsOfCall(r)) :
                ExecsOfCall(r)[i].raised =>
                    ResultOf(r, i).content = "error: " \o ExecsOfCall(r)[i].value

\* C11 as amended: the result of an execution that raised is flagged is_error
\* and its content is the code's prefix (the two characters U+9519 U+8BEF, a
\* colon and a space) followed by the text of the raised failure; the result
\* of an execution that returned has the returned text as content.
C11_ErrorContent ==
    \A r \in 1..maxRounds :
        RoundCompleted(r) =>
            \A i \in 1..Len(ExecsOfCall(r)) :
                ResultOf(r, i).content =
                    IF ExecsOfCall(r)[i].raised
                    THEN ErrorPrefix \o ExecsOfCall(r)[i].value
                    ELSE ExecsOfCall(r)[i].value

\* C11 witness: round 1 is complete and its first execution raised.
C11_Witness ==
    /\ RoundCompleted(1)
    /\ ExecsOfCall(1)[1].raised
    /\ ResultOf(1, 1).is_error

\* C12: on every backend call of an invocation the tool choice is present
\* exactly when the tool definitions are.
C12_ToolChoiceIffTools ==
    \A n \in 1..NumApiCalls(trace) :
        ApiCall(n).has_tool_choice <=> ApiCall(n).has_tools

\* C12 witness: an invocation whose first call carried tools and tool choice
\* and whose forced final call carried neither.
C12_Witness ==
    /\ NumApiCalls(trace) = maxRounds + 1
    /\ ApiCall(1).has_tools /\ ApiCall(1).has_tool_choice
    /\ ~ApiCall(maxRounds + 1).has_tools
    /\ ~ApiCall(maxRounds + 1).has_tool_choice

\* C13: execute_tool with a name that is not registered returns the text
\* "Tool '<name>' not found", raises nothing, runs no tool, and leaves the
\* registry and the last_sources of every tool as they were.
C13_UnknownToolIsText ==
    [][(tm_last'.op = "execute" /\ tm_last'.name \notin Names(tm_tools)) =>
          /\ ~tm_last'.raised
          /\ tm_last'.text = "Tool '" \o tm_last'.name \o "' not found"
          /\ tm_last'.ran = ""
          /\ tm_tools' = tm_tools
          /\ last_sources' = last_sources]_vars

\* C13 witness: "missing_tool" was executed against a registry that holds the
\* search tool, whose citations are still there.
C13_Witness ==
    /\ tm_last.op = "execute" /\ tm_last.name = "missing_tool"
    /\ Names(tm_tools) = {"search_course_content"}
    /\ Len(get_last_sources(tm_tools, last_sources)) > 0

\* C14: register_tool stores the tool under the name of its definition; a
\* definition with a missing or an empty name makes it raise, and the
\* registered tools stay as they were.
C14_RegisterByName ==
    [][tm_last'.op = "register" =>
          IF get_tool_definition(tm_last'.tool).has_name
               /\ get_tool_definition(tm_last'.tool).name # ""
          THEN /\ ~tm_last'.raised
               /\ get_tool_definition(tm_last'.tool).name \in Names(tm_tools')
               /\ Lookup(tm_tools', get_tool_definition(tm_last'.tool).name)
                      = tm_last'.tool
               /\ Names(tm_tools') =
                      Names(tm_tools) \cup {get_tool_definition(tm_last'.tool).name}
          ELSE /\ tm_last'.raised
               /\ tm_tools' = tm_tools]_vars

\* C14 witness: registering the tool with the empty name raised while two
\* tools were registered.
C14_Witness ==
    /\ tm_last.op = "register" /\ tm_last.tool = "blank" /\ tm_last.raised
    /\ Len(tm_tools) = 2

\* C15: get_tool_definitions returns one definition per registered name, in
\* the order in which the names were first registered.
C15_DefinitionsInRegistrationOrder ==
    /\ get_tool_definitions(tm_tools) = tm_first
    /\ Len(tm_first) = Cardinality(Names(tm_tools))
    /\ tm_last.op = "get_defs" => tm_last.list = tm_first

\* C15 witness: two names are registered, the search tool first, and its
\* name was registered again with another instance after the first one ran.
C15_Witness ==
    /\ tm_last.op = "get_defs"
    /\ tm_last.list = <<"search_course_content", "get_course_outline">>
    /\ Lookup(tm_tools, "search_course_content") = "s2"
    /\ Len(last_sources["s1"]) > 0

\* C16 as claimed: after reset_sources, get_last_sources returns the empty
\* list until a later search execution stores citations.
C16_EmptyUntilSearchAsClaimed ==
    (tm_since.reset /\ ~tm_since.stored) =>
        get_last_sources(tm_tools, last_sources) = <<>>

\* C16 as amended: after reset_sources, get_last_sources returns the empty
\* list until a later search execution stores citations or register_tool
\* changes the registered tools.
C16_EmptyUntilSearch ==
    /\ (tm_since.reset /\ ~tm_since.stored /\ ~tm_since.registered) =>
          get_last_sources(tm_tools, last_sources) = <<>>
    /\ (tm_since.reset /\ ~tm_since.stored /\ ~tm_since.registered
          /\ tm_last.op = "get_sources") => tm_last.list = <<>>

\* C16 witness: after a reset, a search that found nothing and a read of the
\* sources, with the search tool registered second.
C16_Witness ==
    /\ tm_since.reset /\ ~tm_since.stored /\ ~tm_since.registered
    /\ tm_last.op = "get_sources"
    /\ Len(tm_tools) = 2
    /\ tm_tools[2].name = "search_course_content"

HasRead(q) == q_pc[q].pc \in {"read", "done"}
NotResetAfter(p) ==
    q_pc[p].pc \in Ended /\ (q_pc[p].pc = "failed" \/ ~q_mode.resets)

\* C17: when no reset_sources followed a query whose search stored
\* citations, a following query on the same ToolManager that stores no
\* citations of its own reads the earlier query's citations.
C17_StaleCitationsLeak ==
    \A p \in QueryIds : \A q \in QueryIds \ {p} :
        (/\ NotResetAfter(p) /\ q_pc[p].last # <<>>
         /\ q_pc[q].after /\ q_pc[q].owned = {} /\ HasRead(q))
            => q_pc[q].read = q_pc[p].last

\* C17 witness: A stored citations and ended without a reset; B ran after
\* it, searched without finding anything, and read A's citations.
C17_Witness ==
    /\ ~q_mode.resets
    /\ q_pc["A"].pc = "done" /\ Len(q_pc["A"].last) = MaxDocs
    /\ q_pc["B"].after /\ q_pc["B"].n > 0 /\ q_pc["B"].owned = {}
    /\ q_pc["B"].pc = "read" /\ q_pc["B"].read = q_pc["A"].last

\* C18: the citations are one channel shared by all queries on the
\* ToolManager: a read returns what the latest storing search of any query
\* stored since the latest reset of any query, so unserialized queries can
\* read each other's citations (the witness is such an interleaving).
C18_SharedCitationChannel ==
    [][\A q \in QueryIds :
          (q_pc[q].pc = "returned" /\ q_pc'[q].pc = "read") =>
              q_pc'[q].read = q_chan.list]_vars

\* C18 witness: without serialization, A stored citations of its own and
\* then read the citations that B, still running, had stored.
C18_Witness ==
    /\ ~q_mode.serialized
    /\ q_pc["A"].pc = "read" /\ q_pc["A"].owned # {}
    /\ q_pc["B"].pc = "gen"
    /\ q_pc["A"].read # <<>>
    /\ \A i \in 1..Len(q_pc["A"].read) :
          q_pc["A"].read[i] \in q_pc["B"].owned \ q_pc["A"].owned

\* C19: when the queries are serialized and the caller reads and then resets
\* after each generate_response that returns, every citation a query reads
\* was stored by a search of that same query.
C19_OwnCitationsOnly ==
    (q_mode.serialized /\ q_mode.resets) =>
        \A q \in QueryIds : HasRead(q) =>
            \A i \in 1..Len(q_pc[q].read) : q_pc[q].read[i] \in q_pc[q].owned

\* C20: search with a course filter that cannot be resolved returns an empty
\* result set whose error is "No course found matching '<courseFilter>'", and
\* the content index is not queried in that call.
C20_UnresolvedCourseShortCircuits ==
    (vs_call.op = "search" /\ vs_call.course_name.given
        /\ (vs_call.env.catalog = {} \/ vs_call.env.catalog_fails)) =>
        /\ vs_call.result.documents = <<>>
        /\ vs_call.result.metadata = <<>>
        /\ vs_call.result.distances = <<>>
        /\ vs_call.result.error =
              Some("No course found matching '" \o vs_call.course_name.value \o "'")
        /\ ~vs_call.content_queried

\* C20 witness: a search for "Nonexistent" in lesson 0 against an empty
\* catalog, with a content index that would have found passages.
C20_Witness ==
    /\ vs_call.op = "search"
    /\ vs_call.course_name = Some("Nonexistent")
    /\ vs_call.lesson_number = Some(0)
    /\ vs_call.env.catalog = {} /\ ~vs_call.env.catalog_fails
    /\ ~vs_call.env.content_fails /\ vs_call.env.n = MaxDocs
    /\ vs_call.result.error.given

Searched == vs_call.op = "search"
CourseGiven == vs_call.course_name.given
LessonGiven == vs_call.lesson_number.given

\* C21: the metadata filter passed to the content index is no filter when
\* neither filter is given, one equality clause on the given field when
\* exactly one is given, and the AND of the two clauses when both are given,
\* also for lesson number 0.
C21_FilterComposition ==
    (Searched /\ vs_call.content_queried) =>
        LET w == vs_call.where IN
        /\ (~CourseGiven /\ ~LessonGiven) => (w.op = "none" /\ w.clauses = <<>>)
        /\ (CourseGiven /\ ~LessonGiven) =>
              /\ w.op = "eq" /\ Len(w.clauses) = 1
              /\ w.clauses[1].field = "course_title"
        /\ (~CourseGiven /\ LessonGiven) =>
              /\ w.op = "eq" /\ Len(w.clauses) = 1
              /\ w.clauses[1].field = "lesson_number"
              /\ w.clauses[1].number = vs_call.lesson_number.value
        /\ (CourseGiven /\ LessonGiven) =>
              /\ w.op = "and" /\ Len(w.clauses) = 2
              /\ w.clauses[1].field = "course_title"
              /\ w.clauses[2].field = "lesson_number"
              /\ w.clauses[2].number = vs_call.lesson_number.value

\* C21 witness: a search restricted to a course that resolves and to lesson 0.
C21_Witness ==
    /\ Searched /\ vs_call.content_queried
    /\ CourseGiven /\ vs_call.lesson_number = Some(0)
    /\ vs_call.where.op = "and"
    /\ vs_call.where.clauses[2] = LessonClause(0)

\* C22: when the course filter resolves, the course clause holds the resolved
\* canonical title, not the string the caller supplied, and the catalog is
\* queried before the content index.
C22_FilterOnResolvedTitle ==
    (Searched /\ CourseGiven /\ vs_call.env.catalog # {}
        /\ ~vs_call.env.catalog_fails) =>
        /\ vs_call.content_queried
        /\ vs_call.log = <<"catalog", "content">>
        /\ vs_call.where.clauses[1].field = "course_title"
        /\ vs_call.where.clauses[1].title \in vs_call.env.catalog
        /\ vs_call.where.clauses[1].title = vs_call.resolved.value
        /\ vs_call.course_name.value \notin vs_call.env.catalog =>
              vs_call.where.clauses[1].title # vs_call.course_name.value

\* C22 witness: Scenario A, the filter "RAG" against a catalog that holds
\* only "Introduction to RAG".
C22_Witness ==
    /\ Searched /\ vs_call.course_name = Some("RAG")
    /\ vs_call.env.catalog = {"Introduction to RAG"}
    /\ vs_call.where = [op |-> "eq",
                        clauses |-> <<CourseClause("Introduction to RAG")>>]

\* C23: no failure of an index escapes search as an exception; a failure of
\* the content query yields the error "Search error: <cause>" and no documents.
C23_SearchErrorIsResult ==
    Searched =>
        /\ ~vs_call.raised
        /\ (vs_call.content_queried /\ vs_call.env.content_fails) =>
              /\ vs_call.result.error = Some("Search error: " \o vs_call.env.cause)
              /\ vs_call.result.documents = <<>>

\* C23 witness: the content query failed with "timeout" on a filtered search.
C23_Witness ==
    /\ Searched /\ vs_call.content_queried /\ vs_call.env.content_fails
    /\ vs_call.env.cause = "timeout" /\ vs_call.where.op = "and"
    /\ vs_call.result.error = Some("Search error: timeout")

\* C24: in every result set of search an error comes with no documents, a
\* successful result has no error, and documents, metadata and distances
\* have the same length.
C24_ResultSetShape ==
    Searched =>
        LET r == vs_call.result
            failed == \/ vs_call.env.content_fails /\ vs_call.content_queried
                      \/ ~vs_call.content_queried
        IN /\ r.error.given => r.documents = <<>>
           /\ ~failed => ~r.error.given
           /\ failed => r.error.given
           /\ Len(r.documents) = Len(r.metadata)
           /\ Len(r.metadata) = Len(r.distances)

\* C24 witness: the content query failed although passages were there to find.
C24_Witness ==
    /\ Searched /\ vs_call.content_queried
    /\ vs_call.env.content_fails /\ vs_call.env.n = MaxDocs
    /\ vs_call.result.error.given /\ Len(vs_call.result.distances) = 0

Resolved == vs_call.op = "resolve"

Executed == st_call.op = "execute"
CarriesError == Executed /\ st_call.results.error.given
FoundNothing ==
    Executed /\ ~st_call.results.error.given /\ st_call.results.documents = <<>>
FoundPassages ==
    Executed /\ ~st_call.results.error.given /\ st_call.results.documents # <<>>

\* C26: when the result set carries an error, execute returns the error text
\* verbatim, not the "No relevant content found" message, and leaves the
\* tool's last_sources as they were.
C26_ErrorVerbatim ==
    CarriesError =>
        /\ st_call.text = st_call.results.error.value
        /\ last_sources["s1"] = st_call.before

\* C26 witness: a second execute with both filters set got an error result
\* (which has no documents) while the tool held citations.
C26_Witness ==
    /\ CarriesError /\ st_pc = "done"
    /\ st_call.results.documents = <<>>
    /\ st_call.course_name.given /\ st_call.lesson_number.given
    /\ st_call.before # <<>>
    /\ st_call.text = "No course found matching 'MCP'"

\* C27: for an empty result without error, execute returns "No relevant
\* content found" followed by the course filter exactly when one was
\* supplied and by the lesson filter exactly when one was supplied, for
\* every lesson number including 0.
C27_EmptyMessageNamesFilters ==
    FoundNothing =>
        st_call.text =
            "No relevant content found"
            \o (IF st_call.course_name.given
                THEN " in course '" \o st_call.course_name.value \o "'" ELSE "")
            \o (IF st_call.lesson_number.given
                THEN " in lesson " \o ToString(st_call.lesson_number.value) ELSE "")
            \o "."

\* The citation of passage i of the last call, with its plain form.
MetaOf(i) == st_call.results.metadata[i]
LessonLinkOf(i) ==
    IF MetaOf(i).lesson_number.given
    THEN st_call.links.lesson[MetaOf(i).lesson_number.value] ELSE NoStr
CourseLinkOf(i) ==
    IF MetaOf(i).course_title.given THEN st_call.links.course ELSE NoStr
PlainOf(i) ==
    IF MetaOf(i).lesson_number.given THEN LessonDisplay(MetaOf(i))
    ELSE TitleOf(MetaOf(i))

\* C28 as claimed: the citation of every passage is a hyperlink to the lesson
\* if a lesson link exists, otherwise a hyperlink to the course if a course
\* link exists, otherwise the plain text.
C28_CitationChainAsClaimed ==
    FoundPassages =>
        \A i \in 1..Len(st_call.results.documents) :
            last_sources["s1"][i] =
                IF LessonLinkOf(i).given
                THEN Anchor(LessonLinkOf(i).value, LessonDisplay(MetaOf(i)))
                ELSE IF CourseLinkOf(i).given
                THEN Anchor(CourseLinkOf(i).value, TitleOf(MetaOf(i)))
                ELSE PlainOf(i)

\* C28 as amended: a passage with a lesson number is cited by a hyperlink to
\* the lesson if a lesson link exists and otherwise by the plain text
\* "<title> - Lesson <n>" (the course link is not tried); a passage without
\* a lesson number is cited by a hyperlink to the course if a course link
\* exists and otherwise by the plain title.
C28_CitationChain ==
    FoundPassages =>
        \A i \in 1..Len(st_call.results.documents) :
            last_sources["s1"][i] =
                IF MetaOf(i).lesson_number.given
                THEN IF LessonLinkOf(i).given
                     THEN Anchor(LessonLinkOf(i).value, LessonDisplay(MetaOf(i)))
                     ELSE PlainOf(i)
                ELSE IF CourseLinkOf(i).given
                     THEN Anchor(CourseLinkOf(i).value, TitleOf(MetaOf(i)))
                     ELSE PlainOf(i)

\* C28 witness: a passage of lesson 0 without a lesson link, in a course that
\* has a link, is cited by the plain text.
C28_Witness ==
    /\ FoundPassages
    /\ MetaOf(1) = [course_title |-> Some("MCP"), lesson_number |-> Some(0)]
    /\ ~st_call.links.lesson[0].given /\ st_call.links.course.given
    /\ last_sources["s1"][1] = "MCP - Lesson 0"

\* C29: after an execute that returns rendered passages, last_sources holds
\* exactly one citation per returned passage, in the order of the passages,
\* whatever it held before.
C29_OneCitationPerPassage ==
    FoundPassages =>
        /\ Len(last_sources["s1"]) = Len(st_call.results.documents)
        /\ \A i \in 1..Len(st_call.results.documents) :
              /\ i <= Len(last_sources["s1"])
              /\ last_sources["s1"][i] = source_html(MetaOf(i), st_call.links)

\* C29 witness: the second execute returned MaxDocs passages with different
\* citations while the tool held another list of citations.
C29_Witness ==
    /\ FoundPassages /\ st_pc = "done"
    /\ Len(st_call.results.documents) = MaxDocs
    /\ st_call.before # <<>>
    /\ st_call.before # last_sources["s1"]
    /\ last_sources["s1"][1] # last_sources["s1"][MaxDocs]

\* C30: after an execute whose search finds no content, last_sources is the
\* empty list, whatever executions preceded it on the tool.
C30_EmptySearchClearsSources ==
    FoundNothing => last_sources["s1"] = <<>>

OutlineCalled == ol_call.op = "execute"
Unresolved == ol_call.env.catalog = {} \/ ol_call.env.catalog_fails

\* C31: CourseOutlineTool.execute lets no exception pass: for an unresolved
\* title (also when the name resolution failed) it returns "No course found
\* matching '<courseTitle>'", and for a missing catalog record, undecodable
\* lesson data or a failure of the catalog it returns an error text.
C31_OutlineNeverRaises ==
    OutlineCalled =>
        /\ ~ol_call.raised
        /\ Unresolved =>
              ol_call.value = "No course found matching '" \o ol_call.course_title \o "'"
        /\ (~Unresolved /\ ol_call.got.kind \in {"none", "no_metadatas"}) =>
              \E t \in ol_call.env.catalog :
                  ol_call.value = "Course metadata not found for '" \o t \o "'"
        /\ (~Unresolved /\ ol_call.got.kind = "bad_json") =>
              ol_call.value = "Error retrieving course outline: Expecting value"
        /\ (~Unresolved /\ ol_call.got.kind = "raises") =>
              ol_call.value = "Error retrieving course outline: catalog unavailable"

\* C31 witness: the title resolved and the lesson data of its record did not
\* decode.
C31_Witness ==
    /\ OutlineCalled /\ ~Unresolved
    /\ ol_call.course_title = "RAG"
    /\ ol_call.got.kind = "bad_json"
    /\ ol_call.value = "Error retrieving course outline: Expecting value"

(***************************************************************************)
(* Executions against requested invocations.                               *)
(***************************************************************************)
\* How often the invocation with this id was executed.
TimesExecuted(id) ==
    Cardinality({j \in 1..Len(trace) :
                    trace[j].type = "exec" /\ trace[j].id = id})

\* The tool executions of call n are over: a later call is logged or the
\* invocation ended.
RoundOver(n) == n < NumApiCalls(trace) \/ Terminal

RECURSIVE SumRequested(_)
SumRequested(n) ==
    IF n = 0 THEN 0 ELSE Len(Requested(n)) + SumRequested(n - 1)

ToolEnabledCalls == {n \in 1..NumApiCalls(trace) : ApiCall(n).has_tools}

\* C32: every tool invocation in the response to a tool-enabled backend call
\* is executed exactly once (once its round is over, and never twice before),
\* an invocation in the response to the forced final call or to a no-tools
\* call is never executed, and when the query ends the number of executions
\* equals the number of invocations in the responses of the at most
\* maxRounds tool-enabled calls.
C32_ExecutedExactlyOnce ==
    /\ \A n \in 1..NumApiCalls(trace) :
          ApiCall(n).ok =>
              \A i \in 1..Len(ToolUses(ApiCall(n).content)) :
                  LET id == ToolUses(ApiCall(n).content)[i].id IN
                  /\ ~ApiCall(n).has_tools => TimesExecuted(id) = 0
                  /\ ApiCall(n).has_tools => TimesExecuted(id) <= 1
                  /\ (ApiCall(n).has_tools /\ RoundOver(n)) => TimesExecuted(id) = 1
    /\ Cardinality(ToolEnabledCalls) <= maxRounds
    /\ Terminal => Len(ToolExecs(trace)) = SumRequested(NumApiCalls(trace))

\* C32 witness: two rounds with two invocations each were executed, four
\* executions in all, and the forced final call answered with a further
\* invocation that was not executed.
C32_Witness ==
    /\ pc = "done"
    /\ NumApiCalls(trace) = maxRounds + 1
    /\ Len(Requested(1)) = 2 /\ Len(Requested(2)) = 2
    /\ Len(ToolExecs(trace)) = 4
    /\ HasToolUse(ApiCall(maxRounds + 1).content)
    /\ TimesExecuted(ToolUses(ApiCall(maxRounds + 1).content)[1].id) = 0

(***************************************************************************)
(* The history sent with each backend call.                                *)
(***************************************************************************)
\* C33: at the n-th backend call of a tool-enabled generate_response the
\* history holds exactly 2n - 1 messages, the first is the user message with
\* the query, the roles alternate user, assistant, user, ..., the last is a
\* user message, and the history of call n is a prefix of that of call n + 1.
C33_HistoryShape ==
    ToolPath =>
        \A n \in 1..NumApiCalls(trace) :
            LET h == ApiCall(n).messages IN
            /\ Len(h) = 2 * n - 1
            /\ h[1] = [role |-> "user", content |-> inv.query]
            /\ \A j \in 1..Len(h) :
                  h[j].role = IF j % 2 = 1 THEN "user" ELSE "assistant"
            /\ h[Len(h)].role = "user"
            /\ n > 1 => IsPrefix(ApiCall(n - 1).messages, h)

\* C33 witness: the forced final call of a tool-enabled invocation was sent a
\* history of five messages.
C33_Witness ==
    /\ ToolPath
    /\ NumApiCalls(trace) = maxRounds + 1
    /\ Len(ApiCall(maxRounds + 1).messages) = 2 * (maxRounds + 1) - 1

\* The message at position j of a history of this invocation is its own: the
\* query, the assistant message of the response to call j / 2, or the
\* results of the executions that followed that call.
OwnMessage(h, j) ==
    IF j = 1 THEN h[j] = [role |-> "user", content |-> inv.query]
    ELSE IF j % 2 = 0
    THEN /\ j \div 2 <= NumApiCalls(trace)
         /\ h[j].role = "assistant"
         /\ ToolUses(h[j].content) = ToolUses(ApiCall(j \div 2).content)
         /\ \A i \in 1..Len(TextItems(h[j].content)) :
               TextItems(h[j].content)[i].text = LastText(ApiCall(j \div 2).content)
    ELSE LET execs == ExecsOfCall(j \div 2) IN
         /\ h[j].role = "user"
         /\ Len(h[j].content) = Len(execs)
         /\ \A i \in 1..Len(execs) :
               /\ h[j].content[i].tool_use_id = execs[i].id
               /\ h[j].content[i].is_error = execs[i].raised

\* C34: in a sequence of generate_response invocations on one AIGenerator,
\* the first backend call of every invocation is sent its own query and
\* nothing else, and every message of every later call is the invocation's
\* own; also when the invocation before ended with a failure.
C34_OwnHistoryOnly ==
    \A n \in 1..NumApiCalls(trace) :
        LET h == ApiCall(n).messages IN
        /\ n = 1 => h = <<[role |-> "user", content |-> inv.query]>>
        /\ \A j \in 1..Len(h) : OwnMessage(h, j)

\* C34 witness: the invocation before this one failed with an assistant and
\* a tool-result message in its history, and this one has made its second
\* backend call.
C34_Witness ==
    /\ inv.earlier = "failed"
    /\ inv.left >= 3
    /\ ToolPath
    /\ NumApiCalls(trace) = 2

(***************************************************************************)
(* Invocations of a name that is not registered.                           *)
(***************************************************************************)
\* The execution logged for an invocation of a name the manager does not know.
Unregistered(e) == e.type = "exec" /\ e.name \notin tool_manager.registry

\* Call n requested tools and at least one of them is not registered.
RoundWithUnregistered(n) ==
    \E i \in 1..Len(ExecsOfCall(n)) : Unregistered(ExecsOfCall(n)[i])

\* C36: an invocation of an unregistered name does not fail the orchestrator.
\* Its execution does not raise and yields "Tool '<name>' not found"; the
\* tool-result item sent to the backend carries that text with is_error
\* false; every invocation of the round is executed; and after the round the
\* loop goes on as after a successful one: the next call carries the tools
\* while rounds remain, and the only failure that can end the invocation is
\* a failed backend call.
C36_UnregisteredToolContinues ==
    ToolPath =>
        /\ \A j \in 1..Len(trace) :
              Unregistered(trace[j]) =>
                  /\ ~trace[j].raised
                  /\ trace[j].value = "Tool '" \o trace[j].name \o "' not found"
        /\ \A n \in 1..NumApiCalls(trace) :
              (RoundWithUnregistered(n) /\ RoundOver(n)) =>
                  /\ IdsOf(ExecsOfCall(n)) = IdsOf(Requested(n))
                  /\ n < NumApiCalls(trace) =>
                        /\ ApiCall(n + 1).has_tools = (n + 1 <= maxRounds)
                        /\ LET rs == ApiCall(n + 1).messages[2 * n + 1].content IN
                           \A i \in 1..Len(rs) :
                               Unregistered(ExecsOfCall(n)[i]) =>
                                   /\ ~rs[i].is_error
                                   /\ rs[i].content =
                                         "Tool '" \o ExecsOfCall(n)[i].name \o "' not found"
        /\ pc = "failed" => failure = "backend"

\* C36 witness: both invocations of the first round named an unregistered
\* tool, both were executed, and the second round's call was made with the
\* tool definitions.
C36_Witness ==
    /\ ToolPath
    /\ NumApiCalls(trace) >= 2
    /\ Len(ExecsOfCall(1)) = 2
    /\ \A i \in 1..2 : Unregistered(ExecsOfCall(1)[i])
    /\ ApiCall(2).has_tools

(***************************************************************************)
(* The choice of the path, and the text taken from a response.             *)
(***************************************************************************)
\* What the caller supplied.
ToolListSupplied == tools.given /\ Len(tools.defs) > 0
RegistrySupplied == tool_manager.given
SomeCallHasTools == \E n \in 1..NumApiCalls(trace) : ApiCall(n).has_tools

\* C35: tool definitions are sent and tools are executed only when both a
\* non-empty tool list and a tool registry were supplied, and then the
\* first call does carry the definitions; when the tool list is missing or
\* empty, or the registry is missing, the invocation ends after exactly one
\* backend call, which carries no tool definitions, and no tool is executed.
C35_ToolsOnlyWithBoth ==
    pc # "idle" =>
        /\ (SomeCallHasTools \/ Len(ToolExecs(trace)) > 0 \/ pc \in {"round_call", "exec"})
              => (ToolListSupplied /\ RegistrySupplied)
        /\ (ToolListSupplied /\ RegistrySupplied /\ NumApiCalls(trace) >= 1)
              => ApiCall(1).has_tools
        /\ (Terminal /\ (~ToolListSupplied \/ ~RegistrySupplied)) =>
              /\ NumApiCalls(trace) = 1
              /\ ~SomeCallHasTools
              /\ Len(ToolExecs(trace)) = 0

\* C35 witness: a non-empty tool list was supplied without a registry, and
\* the invocation returned although the response held a tool invocation.
C35_Witness ==
    /\ pc = "done"
    /\ ToolListSupplied /\ ~RegistrySupplied
    /\ HasToolUse(ApiCall(1).content)

\* The content of the assistant message built from a response: its last text,
\* if it is not empty, then its tool invocations.
AssistantContent(content) ==
    (IF LastText(content) = "" THEN <<>> ELSE <<TextBlock(LastText(content))>>)
        \o ToolUses(content)

\* C39: in the tool-enabled path the answer returned is the last text item
\* of the last response, or the empty string if that response has none; and
\* the assistant message built from a response holds that response's last
\* text first, if it is not empty, followed by the tool invocations, and no
\* text item at all if the text is empty.
C39_LastTextWins ==
    ToolPath =>
        /\ pc = "done" => result = LastText(ApiCall(NumApiCalls(trace)).content)
        /\ \A n \in 2..NumApiCalls(trace) :
              ApiCall(n).messages[2 * n - 2].content
                  = AssistantContent(ApiCall(n - 1).content)

\* C39 witness: the first response named its tool before its text, the
\* assistant message built from it starts with the text, and the second
\* response held two text items, the second of which was returned.
C39_Witness ==
    /\ ToolPath /\ pc = "done"
    /\ NumApiCalls(trace) = 2
    /\ ApiCall(1).content[1].type = "tool_use"
    /\ Len(TextItems(ApiCall(1).content)) = 1
    /\ ApiCall(2).messages[2].content[1].type = "text"
    /\ Len(TextItems(ApiCall(2).content)) = 2
    /\ result = ApiCall(2).content[2].text

(***************************************************************************)
(* The citations of one query.                                             *)
(***************************************************************************)
\* The citations query q stored in searches before its latest storing search.
EarlierCitations(q) ==
    q_pc[q].owned \ {q_pc[q].last[i] : i \in 1..Len(q_pc[q].last)}

SourcesNow == get_last_sources(tm_tools, last_sources)

\* C37: citations are overwritten, not accumulated: when two searches of one
\* query both returned passages and nothing was stored or reset after the
\* later one, get_last_sources returns exactly the citations of the later
\* search and none of the earlier search.
C37_CitationsOverwritten ==
    \A q \in QueryIds :
        (q_chan.by = q /\ EarlierCitations(q) # {}) =>
            /\ SourcesNow = q_pc[q].last
            /\ \A i \in 1..Len(SourcesNow) : SourcesNow[i] \notin EarlierCitations(q)

\* C37 witness: both searches of A returned the most passages, and A read
\* the citations of its second search.
C37_Witness ==
    /\ q_chan.by = "A"
    /\ q_pc["A"].n = 2
    /\ Cardinality(q_pc["A"].owned) = 2 * MaxDocs
    /\ q_pc["A"].pc = "read"
    /\ q_pc["A"].read = Citations(SearchTag("A", 2), MaxDocs)

\* C38: generate_response does not write the citation channel itself: the
\* steps in which it starts, returns or fails leave every tool's last
\* sources as they are (only the executions it dispatches write them), so
\* when query q fails after its search stored citations, get_last_sources
\* still returns those citations after the failure.
C38_FailureKeepsCitations ==
    [][\A q \in QueryIds :
          (q_pc'[q].pc # q_pc[q].pc /\ q_pc'[q].pc \in {"gen", "returned", "failed"}) =>
              /\ last_sources' = last_sources
              /\ (q_pc'[q].pc = "failed" /\ q_chan.by = q) =>
                    /\ get_last_sources(tm_tools', last_sources') = q_pc[q].last
                    /\ q_pc[q].last # <<>>]_vars

\* C38 witness: A failed after its search stored citations, and
\* get_last_sources returns them.
C38_Witness ==
    /\ q_pc["A"].pc = "failed"
    /\ q_chan.by = "A"
    /\ q_pc["A"].last # <<>>
    /\ SourcesNow = q_pc["A"].last

====
